---- MODULE Spec2Model ----
(***************************************************************************)
(* Model of the crypto signal service: the update cycle of main.py         *)
(* (collect_and_predict), the threads that run it (background_updater and  *)
(* the Flask handlers), the per-symbol alert state and the Telegram        *)
(* notifier.                                                               *)
(*                                                                         *)
(* Units.  Time is in minutes.  Prices, ATR and levels are integers in     *)
(* units of 1e-7 USD, so that rounding to 6 decimals (round(x, 6)) is a    *)
(* real operation: it rounds to a multiple of 10.  Probabilities are in    *)
(* percent, percentage offsets in per mille.                               *)
(***************************************************************************)
EXTENDS Integers, Sequences, FiniteSets, TLC

\* ------------------------------------------------------------ bounds
\* The clock stops after MaxTicks ticks.
MaxTicks == 1
\* At most MaxCycles update cycles are started.
MaxCycles == 2

\* ------------------------------------------------- program constants
ALERT_CONF_MIN == 65          \* 0.65, in percent
ALERT_COOLDOWN_MIN == 30      \* minutes
\* A tick of the clock is one cooldown period.
ClockStep == ALERT_COOLDOWN_MIN
UPDATE_INTERVAL_SEC == 300    \* seconds
TP_ATR_MULT == 2              \* 2.0
SL_ATR_MULT == 1              \* 1.0
TP_PCT == 20                  \* 0.02, in per mille
SL_PCT == 10                  \* 0.01, in per mille
MIN_PCT == 1                  \* 0.001, in per mille
MIN_CANDLES == 60
USE_ATR_LEVELS == TRUE
\* TELEGRAM_BOT_TOKEN and TELEGRAM_CHAT_ID are set in the environment.
TG_CONFIGURED == TRUE

\* coingecko_client.py; delays in milliseconds, the backoff factor in tenths.
API_DELAY_BULK == 1500        \* 1.5 s
API_DELAY_OHLC == 1500        \* 1.5 s
MAX_RETRIES == 5
BACKOFF_BASE == 18            \* 1.8
DELAY_CEILING == 60000        \* 60.0 s
BATCH_SIZE == 5

\* The symbols, and the lists config.SYMBOLS may hold: two symbols, or one
\* symbol listed twice.
Sym == {"BTCUSDT", "ETHUSDT"}
SymbolLists == {<<"BTCUSDT", "ETHUSDT">>, <<"BTCUSDT", "BTCUSDT">>}

\* The threads that call collect_and_predict: the background updater and a
\* Flask worker serving /api/force-update and /api/predictions.
Threads == {"timer", "http"}

\* Optional values (None in the code): <<>> is None, <<v>> is the value v.
None == <<>>
Some(v) == <<v>>

\* ------------------------------------------------------------ inputs
\* Quotes of the bulk response, ATR values of a candle series, and the
\* classifier's results.
Prices == {1000}
Atrs == {20}
Ohlcs == [n : {0, 59, 60}, atr : Atrs]
Results == [signal : {"COMPRA", "VENDA", "NEUTRO"}, confidence : {50, 70},
            probability_buy : {50, 70}, probability_sell : {50, 70}]
\* An entry of the mapping fetch_bulk_prices returned: a quote, or None when
\* the symbol's id is missing from it.
Quotes == {Some(p) : p \in Prices}

\* ------------------------------------------------------ pure functions
\* round(x, 6): to the nearest multiple of 10 units, ties to even.
Round6(x) ==
    LET q == x \div 10
        r == x % 10
    IN  IF r < 5 THEN q * 10
        ELSE IF r > 5 THEN (q + 1) * 10
        ELSE IF q % 2 = 0 THEN q * 10 ELSE (q + 1) * 10

Max(a, b) == IF a >= b THEN a ELSE b

\* entry * (1 + pm/1000) and entry * (1 - pm/1000)
PctUp(entry, pm) == (entry * (1000 + pm)) \div 1000
PctDown(entry, pm) == (entry * (1000 - pm)) \div 1000

\* Levels on the wrong sides of the price.
price_levels_by_atr_Mirrored(side, price, atr, tp_mult, sl_mult) ==
    IF side = "COMPRA"
    THEN <<price - tp_mult * atr, price + sl_mult * atr>>
    ELSE <<price + tp_mult * atr, price - sl_mult * atr>>

price_levels_by_atr(side, price, atr, tp_mult, sl_mult) ==
    IF side = "COMPRA"
    THEN <<price + tp_mult * atr, price - sl_mult * atr>>
    ELSE <<price - tp_mult * atr, price + sl_mult * atr>>

enforce_coherence(side, entry, tp0, sl0) ==
    IF side = "COMPRA"
    THEN LET sw == tp0 <= entry /\ sl0 >= entry
             tp1 == IF sw THEN sl0 ELSE tp0
             sl1 == IF sw THEN tp0 ELSE sl0
             tp2 == IF tp1 <= entry THEN PctUp(entry, Max(TP_PCT, MIN_PCT)) ELSE tp1
             sl2 == IF sl1 >= entry THEN PctDown(entry, Max(SL_PCT, MIN_PCT)) ELSE sl1
         IN  <<tp2, sl2>>
    ELSE LET sw == tp0 >= entry /\ sl0 <= entry
             tp1 == IF sw THEN sl0 ELSE tp0
             sl1 == IF sw THEN tp0 ELSE sl0
             tp2 == IF tp1 >= entry THEN PctDown(entry, Max(TP_PCT, MIN_PCT)) ELSE tp1
             sl2 == IF sl1 <= entry THEN PctUp(entry, Max(SL_PCT, MIN_PCT)) ELSE sl1
         IN  <<tp2, sl2>>

\* Lines 379-393: the levels of a candidate alert before the repair.
RawLevels(side, entry, atr) ==
    IF USE_ATR_LEVELS /\ atr # 0
    THEN price_levels_by_atr(side, entry, atr, TP_ATR_MULT, SL_ATR_MULT)
    ELSE IF side = "COMPRA"
         THEN <<PctUp(entry, TP_PCT), PctDown(entry, SL_PCT)>>
         ELSE <<PctDown(entry, TP_PCT), PctUp(entry, SL_PCT)>>

Levels(side, entry, atr) ==
    LET raw == RawLevels(side, entry, atr)
    IN  enforce_coherence(side, entry, raw[1], raw[2])

\* 1e-12 is one unit of the reward and of the risk: prices count 1e-7.
EpsScale == 100000

\* A divisor without a floor.
RiskFloor_None(x) == x

\* max(x, 1e-12)
RiskFloor(x) == Max(x, 1)

\* Lines 398-402: rr as the pair of its dividend and its divisor.
RewardRisk(side, entry, tp, sl) ==
    IF side = "COMPRA"
    THEN <<(tp - entry) * EpsScale, RiskFloor((entry - sl) * EpsScale)>>
    ELSE <<(entry - tp) * EpsScale, RiskFloor((sl - entry) * EpsScale)>>

\* round(rr, 2), as the pair of the whole part and the hundredths.
Round2(rr) ==
    IF rr[2] = 1
    THEN <<rr[1], 0>>
    ELSE LET a == rr[1] \div EpsScale
             b == rr[2] \div EpsScale
             h == ((a % b) * 100 + b \div 2) \div b
         IN  IF h = 100 THEN <<a \div b + 1, 0>> ELSE <<a \div b, h>>

\* Line 405: sig = (side, round(entry,6), round(tp,6), round(sl,6))
Signature(side, entry, atr) ==
    LET lv == Levels(side, entry, atr)
    IN  <<side, Round6(entry), Round6(lv[1]), Round6(lv[2])>>

\* A trigger that looks at the confidence only.
Trigger_ConfidenceOnly(res) == res.confidence >= ALERT_CONF_MIN

\* Lines 369-373.
Trigger(res) ==
    /\ res.confidence >= ALERT_CONF_MIN
    /\ \/ (res.signal = "COMPRA" /\ res.probability_buy >= ALERT_CONF_MIN)
       \/ (res.signal = "VENDA" /\ res.probability_sell >= ALERT_CONF_MIN)

\* Line 407: cooldown_ok.
CooldownOk(t_now, t_last) ==
    t_last = None \/ (t_now - t_last[1]) >= ALERT_COOLDOWN_MIN

\* Line 408: is_dup.
IsDup(l_sig, s_sig) == l_sig = Some(s_sig)

\* A faulty decision that forgets the cooldown.
ShouldDispatch_NoCooldown(ok, dup) == ~dup

\* Line 409: the dispatch decision.
ShouldDispatch(ok, dup) == ok /\ ~dup

\* A faulty guard that forgets sent_this_cycle.
EntersAlert_Uncapped(trig, symbol, sent) == trig

\* Line 375: the alert block is entered.
EntersAlert(trig, symbol, sent) == trig /\ symbol \notin sent

\* The parts of AlertState stored with the decision (line 410) and after the
\* notifier returned (line 464).
StoredAtDecision == {"sig"}
\* A cycle that never stores the time of its dispatch.
StoredAfterNotify_Nothing == {}

StoredAfterNotify == {"time"}

\* A faulty notifier that also falls back after a refusal.
AfterSend_RefusalRetried(result) ==
    IF result \in {"raised", "refused"} THEN "fallback" ELSE "settime"

\* notify_telegram_message, lines 110-126: the fallback transport is used when
\* _tg_fn raised; a refusal reported by Telegram (ok = False) is not an
\* exception and is not followed by a second post.
AfterSend(result) == IF result = "raised" THEN "fallback" ELSE "settime"

\* A faulty fallback that lets its exception through.
FallbackSwallows_Not == FALSE

\* _notify_telegram_fallback, lines 100-107: an exception of requests.post is
\* printed and swallowed.
FallbackSwallows == TRUE

\* Line 354: price_now = float(cur.get("usd", 0.0))
PriceNow(quote) == IF quote = None THEN 0 ELSE quote[1]


\* -------------------------------------------------------------- state
VARIABLES
    symbols,            \* config.SYMBOLS
    clock,              \* datetime.utcnow(), in minutes
    predictions_cache,  \* main.py:132, the published snapshot
    last_update,        \* main.py:133
    last_alert_time,    \* main.py:136, _last_alert_time
    last_alert_sig,     \* main.py:137, _last_alert_sig
    pc,                 \* where each thread is
    idx,                \* position of the loop over SYMBOLS (line 331)
    bulk_data,          \* local (line 327): the entries looked up so far
    predictions,        \* local (line 328)
    sent_this_cycle,    \* local (line 329)
    now,                \* local (line 376)
    last_t,             \* local (line 377)
    sig,                \* local (line 405)
    last_sig,           \* local (line 406)
    sleep_until,        \* end of the updater's time.sleep (line 483)
    cycles,             \* number of cycles started so far
    outcome,            \* history: how the thread's last symbol ended
    tg,                 \* history: result of the current notification
    attempts,           \* history: results of the HTTP posts made for the payload
    wrote,              \* history: AlertState parts written for the payload
    handoff,            \* history: value of wrote when the notifier was called
    dispatched          \* history: the payloads of the running cycle

\* The CoinGecko client (coingecko_client.py), seen from one cycle: the bulk
\* request of line 327 of main.py and the candle request of line 334.
VARIABLES
    f_cfg,              \* API_DELAY_BULK, API_DELAY_OHLC, BACKOFF_BASE
    provider,           \* the answers the provider may give
    f_symbols,          \* fetch_bulk_prices: symbols
    f_batch,            \* fetch_bulk_prices: batch_size
    f_pc,               \* where the cycle's fetching is
    f_i,                \* fetch_bulk_prices: i, start of the batch (line 110)
    f_k,                \* position of the candle request in the symbol list
    f_attempt,          \* attempt (lines 116, 180)
    f_delay,            \* delay (lines 115, 179), in milliseconds
    f_out,              \* fetch_bulk_prices: keys of out
    f_log,              \* history: the requests issued in the cycle
    f_last,             \* history: the provider's answer to the last request
    f_wait,             \* history: the wait that followed the last request
    f_seen,             \* history: symbols a 200 response held an entry for
    f_result            \* history: how the last call of the client ended

\* The levels of one candidate alert (lines 379-396 and 436-441 of main.py).
VARIABLES
    lv                  \* side, entry, raw levels, repaired levels, payload

\* One call of a function of main.py that is followed on its own: its
\* arguments and, once it has returned, its result.
VARIABLES
    call

\* History: the number of the cycle each thread runs or ran last, and the
\* numbers of the cycles that assigned predictions_cache (line 470) and
\* last_update (line 471) last; 0 stands for no cycle.
VARIABLES
    writer

fetch == <<f_cfg, provider, f_symbols, f_batch, f_pc, f_i, f_k, f_attempt,
           f_delay, f_out, f_log, f_last, f_wait, f_seen, f_result>>
others == <<fetch, lv, call>>
aux == <<others, writer>>

shared == <<symbols, clock, predictions_cache, last_update, last_alert_time, last_alert_sig>>
locals == <<pc, idx, bulk_data, predictions, sent_this_cycle, now, last_t,
            sig, last_sig, sleep_until, cycles>>
history == <<outcome, tg, attempts, wrote, handoff, dispatched>>
vars == <<shared, locals, history, aux>>

\* The mapping of line 327 is drawn entry by entry, when line 353 looks the
\* entry up: None marks an entry not looked up yet, Some(q) one that was found
\* to be q.  An entry keeps its value until the cycle ends.
NoBulk == [s \in Sym |-> None]

\* The service before its first cycle.
MainIdle ==
    /\ clock = 0
    /\ predictions_cache = <<>>
    /\ last_update = None
    /\ last_alert_time = [s \in Sym |-> None]
    /\ last_alert_sig = [s \in Sym |-> None]
    /\ writer = [run |-> [t \in Threads |-> 0], cache |-> 0, stamp |-> 0]
    /\ pc = [t \in Threads |-> IF t = "timer" THEN "sleep" ELSE "idle"]
    /\ idx = [t \in Threads |-> 1]
    /\ bulk_data = [t \in Threads |-> NoBulk]
    /\ predictions = [t \in Threads |-> <<>>]
    /\ sent_this_cycle = [t \in Threads |-> {}]
    /\ now = [t \in Threads |-> None]
    /\ last_t = [t \in Threads |-> None]
    /\ sig = [t \in Threads |-> None]
    /\ last_sig = [t \in Threads |-> None]
    /\ sleep_until = 0
    /\ cycles = 0
    /\ outcome = [t \in Threads |-> "none"]
    /\ tg = [t \in Threads |-> "none"]
    /\ attempts = [t \in Threads |-> <<>>]
    /\ wrote = [t \in Threads |-> {}]
    /\ handoff = [t \in Threads |-> None]
    /\ dispatched = [t \in Threads |-> <<>>]

\* The client as the cycles of Spec see it: its requests are not followed one
\* by one there (BulkRaises, SymbolSkipped and SymbolPredicted stand for their
\* results).
FetchIdle ==
    /\ f_cfg = [delay_bulk |-> API_DELAY_BULK, delay_ohlc |-> API_DELAY_OHLC,
                backoff |-> BACKOFF_BASE]
    /\ provider = "any"
    /\ f_symbols = <<>>
    /\ f_batch = BATCH_SIZE
    /\ f_pc = "off"
    /\ f_i = 0
    /\ f_k = 0
    /\ f_attempt = 1
    /\ f_delay = 0
    /\ f_out = {}
    /\ f_log = <<>>
    /\ f_last = "none"
    /\ f_wait = None
    /\ f_seen = {}
    /\ f_result = "none"

LevelsIdle == lv = None

CallIdle == call = None

Init ==
    /\ symbols \in SymbolLists
    /\ MainIdle
    /\ FetchIdle
    /\ LevelsIdle
    /\ CallIdle

\* The symbol the loop of thread t is at.
Cur(t) == symbols[idx[t]]

\* The cycle that is followed has its provider data fixed in advance: the
\* number of candles fetch_ohlc returns for each symbol, and whether
\* predict_signal returns a result for it.
Planned == call # None /\ call[1].fn = "cycle"

\* What fetch_ohlc returns for the symbol, whether something in its
\* processing raises, and whether predict_signal returns a result.
OhlcsFor(s) == IF Planned THEN {o \in Ohlcs : o.n = call[1].ohlc[s]} ELSE Ohlcs
RaisedFor(s) == IF Planned THEN {FALSE} ELSE BOOLEAN
ClassifiedFor(s) == IF Planned THEN {call[1].classified[s]} ELSE BOOLEAN

\* A test that lets every series through.
EnoughCandles_Any(n) == TRUE

\* Line 335: not (not ohlc_raw or len(ohlc_raw) < 60)
EnoughCandles(n) == n >= MIN_CANDLES

InCycle(t) == pc[t] \in {"loop", "readsig", "decide", "notify",
                         "settime", "publish", "stamp"}


\* ------------------------------------------------------------ helpers
\* Entering collect_and_predict (lines 322-329): fresh locals, and the bulk
\* request of line 327 answers with a (possibly partial) mapping.
EnterCycle(t) ==
    /\ cycles < MaxCycles
    /\ cycles' = cycles + 1
    /\ writer' = [writer EXCEPT !.run[t] = cycles + 1]
    /\ pc' = [pc EXCEPT ![t] = "loop"]
    /\ idx' = [idx EXCEPT ![t] = 1]
    /\ bulk_data' = [bulk_data EXCEPT ![t] = NoBulk]
    /\ predictions' = [predictions EXCEPT ![t] = <<>>]
    /\ sent_this_cycle' = [sent_this_cycle EXCEPT ![t] = {}]
    /\ outcome' = [outcome EXCEPT ![t] = "none"]
    /\ dispatched' = [dispatched EXCEPT ![t] = <<>>]
    /\ UNCHANGED sleep_until

\* Returning from collect_and_predict to its caller: the updater sleeps
\* (line 483), a handler builds its response (lines 604, 632).
LeaveCycle(t) ==
    /\ pc' = [pc EXCEPT ![t] = IF t = "timer" THEN "sleep" ELSE "respond"]
    /\ sleep_until' = IF t = "timer" THEN clock * 60 + UPDATE_INTERVAL_SEC
                      ELSE sleep_until
    /\ idx' = [idx EXCEPT ![t] = 1]
    /\ bulk_data' = [bulk_data EXCEPT ![t] = NoBulk]
    /\ predictions' = [predictions EXCEPT ![t] = <<>>]
    /\ sent_this_cycle' = [sent_this_cycle EXCEPT ![t] = {}]
    /\ outcome' = [outcome EXCEPT ![t] = "none"]
    /\ dispatched' = [dispatched EXCEPT ![t] = <<>>]

\* A loop that ends after its first symbol.
Advance_PublishEarly(t, how) ==
    /\ idx' = [idx EXCEPT ![t] = idx[t] + 1]
    /\ pc' = [pc EXCEPT ![t] = "publish"]
    /\ outcome' = [outcome EXCEPT ![t] = how]
    /\ now' = [now EXCEPT ![t] = None]
    /\ last_t' = [last_t EXCEPT ![t] = None]
    /\ sig' = [sig EXCEPT ![t] = None]
    /\ last_sig' = [last_sig EXCEPT ![t] = None]
    /\ tg' = [tg EXCEPT ![t] = "none"]
    /\ attempts' = [attempts EXCEPT ![t] = <<>>]
    /\ wrote' = [wrote EXCEPT ![t] = {}]
    /\ handoff' = [handoff EXCEPT ![t] = None]

\* The loop of line 331 moves to the next symbol, or ends.
Advance(t, how) ==
    /\ idx' = [idx EXCEPT ![t] = idx[t] + 1]
    /\ pc' = [pc EXCEPT ![t] = IF idx[t] = Len(symbols) THEN "publish" ELSE "loop"]
    /\ outcome' = [outcome EXCEPT ![t] = how]
    /\ now' = [now EXCEPT ![t] = None]
    /\ last_t' = [last_t EXCEPT ![t] = None]
    /\ sig' = [sig EXCEPT ![t] = None]
    /\ last_sig' = [last_sig EXCEPT ![t] = None]
    /\ tg' = [tg EXCEPT ![t] = "none"]
    /\ attempts' = [attempts EXCEPT ![t] = <<>>]
    /\ wrote' = [wrote EXCEPT ![t] = {}]
    /\ handoff' = [handoff EXCEPT ![t] = None]

\* Line 602: the snapshot is missing or older than the update interval.
Stale ==
    \/ predictions_cache = <<>>
    \/ last_update = None
    \/ (clock - last_update[1]) * 60 > UPDATE_INTERVAL_SEC

\* ------------------------------------------------------------ actions
\* Time passes.
Tick ==
    /\ clock + ClockStep <= MaxTicks * ClockStep
    /\ clock' = clock + ClockStep
    /\ UNCHANGED <<symbols, predictions_cache, last_update, last_alert_time,
                   last_alert_sig, locals, history>>
    /\ UNCHANGED aux

\* background_updater (lines 477-483): the sleep is over, the next cycle starts.
TimerWake ==
    /\ pc["timer"] = "sleep"
    /\ clock * 60 >= sleep_until
    /\ EnterCycle("timer")
    /\ UNCHANGED <<shared, now, last_t, sig, last_sig, tg, attempts, wrote, handoff>>
    /\ UNCHANGED others

\* /api/force-update (lines 628-634): always runs a cycle.
ForceUpdate ==
    /\ pc["http"] = "idle"
    /\ EnterCycle("http")
    /\ UNCHANGED <<shared, now, last_t, sig, last_sig, tg, attempts, wrote, handoff>>
    /\ UNCHANGED others

\* /api/predictions (lines 599-603): runs a cycle when the snapshot is stale.
GetPredictions ==
    /\ pc["http"] = "idle"
    /\ IF Stale
       THEN EnterCycle("http")
       ELSE /\ pc' = [pc EXCEPT !["http"] = "respond"]
            /\ UNCHANGED <<idx, bulk_data, predictions, sent_this_cycle,
                           outcome, dispatched, cycles, sleep_until, writer>>
    /\ UNCHANGED <<shared, now, last_t, sig, last_sig, tg, attempts, wrote, handoff>>
    /\ UNCHANGED others

\* The handler returns its JSON response (lines 604-609, 632).
Respond ==
    /\ pc["http"] = "respond"
    /\ pc' = [pc EXCEPT !["http"] = "idle"]
    /\ UNCHANGED <<shared, idx, bulk_data, predictions, sent_this_cycle, now,
                   last_t, sig, last_sig, sleep_until, cycles, history>>
    /\ UNCHANGED aux

\* Line 327 raises (fetch_bulk_prices lets a ValueError of float(retry_after)
\* through) in a cycle that has just begun: the handler of lines 474-475 ends
\* the cycle, nothing is published.
BulkRaises(t) ==
    /\ pc[t] = "loop"
    /\ idx[t] = 1
    /\ bulk_data[t] = NoBulk
    /\ predictions[t] = <<>>
    /\ LeaveCycle(t)
    /\ UNCHANGED <<shared, now, last_t, sig, last_sig, cycles,
                   tg, attempts, wrote, handoff>>
    /\ UNCHANGED aux

\* Lines 332-351, 466-468: the symbol is left without a prediction, because
\* an exception was raised, the candles are too few, or predict_signal
\* returned no result.
SymbolSkipped(t) ==
    /\ pc[t] = "loop"
    /\ \E raised \in RaisedFor(Cur(t)), o \in OhlcsFor(Cur(t)),
          classified \in ClassifiedFor(Cur(t)) :
          raised \/ ~EnoughCandles(o.n) \/ ~classified
    /\ Advance(t, "skipped")
    /\ UNCHANGED <<shared, bulk_data, predictions, sent_this_cycle,
                   sleep_until, cycles, dispatched>>
    /\ UNCHANGED aux

\* Lines 332-377 (and 379-405, which touch locals only): the symbol gets a
\* prediction entry; when the trigger fires and the symbol was not alerted in
\* this cycle, the alert block is entered: now and last_t are read and the
\* signature is computed.
SymbolPredictedFrom(t, quotes) ==
    /\ pc[t] = "loop"
    /\ \E o \in OhlcsFor(Cur(t)), res \in Results, q \in quotes :
          /\ EnoughCandles(o.n)
          /\ TRUE \in ClassifiedFor(Cur(t))
          /\ bulk_data[t][Cur(t)] \in {None, Some(q)}
          /\ bulk_data' = [bulk_data EXCEPT ![t][Cur(t)] = Some(q)]
          /\ predictions' = [predictions EXCEPT ![t] = Append(@, Cur(t))]
          /\ IF EntersAlert(Trigger(res), Cur(t), sent_this_cycle[t])
             THEN /\ now' = [now EXCEPT ![t] = Some(clock)]
                  /\ last_t' = [last_t EXCEPT ![t] = last_alert_time[Cur(t)]]
                  /\ sig' = [sig EXCEPT ![t] =
                                Some(Signature(res.signal, PriceNow(q), o.atr))]
                  /\ pc' = [pc EXCEPT ![t] = "readsig"]
                  /\ outcome' = [outcome EXCEPT ![t] = "none"]
                  /\ UNCHANGED <<idx, last_sig, tg, attempts, wrote, handoff>>
             ELSE Advance(t, IF Trigger(res) THEN "capped" ELSE "quiet")
    /\ UNCHANGED <<shared, sent_this_cycle, sleep_until, cycles,
                   dispatched>>
    /\ UNCHANGED aux

\* The mapping of line 327 holds a quote for the symbol.
SymbolPredicted(t) == SymbolPredictedFrom(t, Quotes)

\* The mapping holds no entry for the symbol (its id was missing from the
\* response, or its batch was given up): line 353 reads {} and line 354 a
\* price of 0.0, and the symbol goes on like any other.
SymbolUnquoted(t) == SymbolPredictedFrom(t, {None})

\* Line 406: last_sig = _last_alert_sig.get(symbol)
ReadSig(t) ==
    /\ pc[t] = "readsig"
    /\ last_sig' = [last_sig EXCEPT ![t] = last_alert_sig[Cur(t)]]
    /\ pc' = [pc EXCEPT ![t] = "decide"]
    /\ UNCHANGED <<shared, idx, bulk_data, predictions, sent_this_cycle, now,
                   last_t, sig, sleep_until, cycles, history>>
    /\ UNCHANGED aux

\* Lines 407-411: the decision.  On dispatch the signature is stored and the
\* symbol joins sent_this_cycle; the payload is built next (lines 413-459).
Decide(t) ==
    /\ pc[t] = "decide"
    /\ IF ShouldDispatch(CooldownOk(now[t][1], last_t[t]), IsDup(last_sig[t], sig[t][1]))
       THEN /\ last_alert_sig' = IF "sig" \in StoredAtDecision
                                 THEN [last_alert_sig EXCEPT ![Cur(t)] = sig[t]]
                                 ELSE last_alert_sig
            /\ last_alert_time' = IF "time" \in StoredAtDecision
                                  THEN [last_alert_time EXCEPT ![Cur(t)] = now[t]]
                                  ELSE last_alert_time
            /\ sent_this_cycle' = [sent_this_cycle EXCEPT ![t] = @ \cup {Cur(t)}]
            /\ pc' = [pc EXCEPT ![t] = "notify"]
            /\ wrote' = [wrote EXCEPT ![t] = StoredAtDecision]
            /\ dispatched' = [dispatched EXCEPT ![t] =
                                Append(@, [symbol |-> Cur(t), sig |-> sig[t][1],
                                           now |-> now[t][1]])]
            /\ UNCHANGED <<idx, now, last_t, sig, last_sig, outcome, tg, attempts,
                           handoff>>
       ELSE /\ Advance(t, "suppressed")
            /\ UNCHANGED <<last_alert_sig, last_alert_time, sent_this_cycle,
                           dispatched>>
    /\ UNCHANGED <<symbols, clock, predictions_cache, last_update,
                   bulk_data, predictions, sleep_until, cycles>>
    /\ UNCHANGED aux


\* Lines 462-463: the payload is handed to notify_telegram_message
\* (lines 109-126), which calls _tg_fn = send_signal_notification
\* (notifier_telegram.py 40-53).  That posts the message once: requests.post
\* raises, or Telegram answers with ok or with a refusal; without the
\* environment _ensure_env raises before any post.  After an exception the
\* message is posted again by _notify_telegram_fallback (lines 97-107), whose
\* own exception is swallowed.
Notify(t) ==
    /\ pc[t] = "notify"
    /\ \E first \in (IF TG_CONFIGURED THEN {"ok", "refused", "raised"} ELSE {"unset"}),
          second \in (IF TG_CONFIGURED THEN {"ok", "refused", "raised"} ELSE {"unset"}) :
          LET posts1 == IF first = "unset" THEN <<>> ELSE <<first>>
              again  == AfterSend(IF first = "unset" THEN "raised" ELSE first) = "fallback"
              posts2 == IF again /\ second # "unset" THEN <<second>> ELSE <<>>
              final  == IF again THEN second ELSE first
          IN  IF again /\ second = "raised" /\ ~FallbackSwallows
              THEN \* the exception reaches line 466: line 464 is skipped
                   Advance(t, "error")
              ELSE /\ attempts' = [attempts EXCEPT ![t] = posts1 \o posts2]
                   /\ tg' = [tg EXCEPT ![t] = IF final = "ok" THEN "ok" ELSE "failed"]
                   /\ handoff' = [handoff EXCEPT ![t] = Some(wrote[t])]
                   /\ pc' = [pc EXCEPT ![t] = "settime"]
                   /\ UNCHANGED <<idx, now, last_t, sig, last_sig, outcome, wrote>>
    /\ UNCHANGED <<shared, bulk_data, predictions, sent_this_cycle,
                   sleep_until, cycles, dispatched>>
    /\ UNCHANGED aux

\* Line 464: _last_alert_time[symbol] = now, whatever the notifier did.
SetTime(t) ==
    /\ pc[t] = "settime"
    /\ last_alert_time' = IF "time" \in StoredAfterNotify
                          THEN [last_alert_time EXCEPT ![Cur(t)] = now[t]]
                          ELSE last_alert_time
    /\ last_alert_sig' = IF "sig" \in StoredAfterNotify
                         THEN [last_alert_sig EXCEPT ![Cur(t)] = sig[t]]
                         ELSE last_alert_sig
    /\ Advance(t, IF tg[t] = "ok" THEN "sent" ELSE "sent_failed")
    /\ UNCHANGED <<symbols, clock, predictions_cache, last_update, bulk_data,
                   predictions, sent_this_cycle, sleep_until, cycles, dispatched>>
    /\ UNCHANGED aux

\* Line 470: predictions_cache = predictions
Publish(t) ==
    /\ pc[t] = "publish"
    /\ predictions_cache' = predictions[t]
    /\ writer' = [writer EXCEPT !.cache = writer.run[t]]
    /\ pc' = [pc EXCEPT ![t] = "stamp"]
    /\ UNCHANGED <<symbols, clock, last_update, last_alert_time, last_alert_sig, idx,
                   bulk_data, predictions, sent_this_cycle, now, last_t, sig,
                   last_sig, sleep_until, cycles, history>>
    /\ UNCHANGED others

\* Line 471: last_update = datetime.utcnow(); the cycle is over.
Stamp(t) ==
    /\ pc[t] = "stamp"
    /\ last_update' = Some(clock)
    /\ writer' = [writer EXCEPT !.stamp = writer.run[t]]
    /\ LeaveCycle(t)
    /\ UNCHANGED <<symbols, clock, predictions_cache, last_alert_time, last_alert_sig,
                   now, last_t, sig, last_sig, cycles, tg, attempts, wrote,
                   handoff>>
    /\ UNCHANGED others

Next ==
    \/ Tick
    \/ TimerWake
    \/ ForceUpdate
    \/ GetPredictions
    \/ Respond
    \/ \E t \in Threads : BulkRaises(t)
    \/ \E t \in Threads : SymbolSkipped(t)
    \/ \E t \in Threads : SymbolPredicted(t)
    \/ \E t \in Threads : ReadSig(t)
    \/ \E t \in Threads : Decide(t)
    \/ \E t \in Threads : Notify(t)
    \/ \E t \in Threads : SetTime(t)
    \/ \E t \in Threads : Publish(t)
    \/ \E t \in Threads : Stamp(t)

Spec == Init /\ [][Next]_vars

\* The background updater alone, with a bulk mapping that may lack symbols.
InitPartial ==
    /\ symbols = <<"BTCUSDT", "ETHUSDT">>
    /\ MainIdle
    /\ FetchIdle
    /\ LevelsIdle
    /\ CallIdle

NextPartial ==
    \/ Tick
    \/ TimerWake
    \/ BulkRaises("timer")
    \/ SymbolSkipped("timer")
    \/ SymbolPredicted("timer")
    \/ SymbolUnquoted("timer")
    \/ ReadSig("timer")
    \/ Decide("timer")
    \/ Notify("timer")
    \/ SetTime("timer")
    \/ Publish("timer")
    \/ Stamp("timer")

SpecPartial == InitPartial /\ [][NextPartial]_vars

\* The background updater alone, in cycles whose candle series and
\* classifications are fixed in advance.
InitCandles ==
    /\ symbols = <<"BTCUSDT", "ETHUSDT">>
    /\ MainIdle
    /\ FetchIdle
    /\ LevelsIdle
    /\ \E n \in [Sym -> {o.n : o \in Ohlcs}], c \in [Sym -> BOOLEAN] :
          call = Some([fn |-> "cycle", ohlc |-> n, classified |-> c])

NextCandles ==
    \/ Tick
    \/ TimerWake
    \/ SymbolSkipped("timer")
    \/ SymbolPredicted("timer")
    \/ ReadSig("timer")
    \/ Decide("timer")
    \/ Notify("timer")
    \/ SetTime("timer")
    \/ Publish("timer")
    \/ Stamp("timer")

SpecCandles == InitCandles /\ [][NextCandles]_vars

\* /api/status, line 615: the handler, on a thread of its own, reads
\* last_update.
StatusReadsUpdate ==
    /\ call = None
    /\ call' = Some([fn |-> "status", stage |-> "update",
                     last_update |-> last_update, update_of |-> writer.stamp,
                     cached |-> 0, cache_of |-> 0])
    /\ UNCHANGED <<shared, locals, history, writer, fetch, lv>>

\* /api/status, line 616: it reads predictions_cache and responds.
StatusReadsCache ==
    /\ call # None
    /\ call[1].fn = "status"
    /\ call[1].stage = "update"
    /\ call' = Some([call[1] EXCEPT !.stage = "done",
                                    !.cached = Len(predictions_cache),
                                    !.cache_of = writer.cache])
    /\ UNCHANGED <<shared, locals, history, writer, fetch, lv>>

\* The background updater and one request to /api/status.
NextStatus ==
    \/ NextPartial
    \/ StatusReadsUpdate
    \/ StatusReadsCache

SpecStatus == InitPartial /\ [][NextStatus]_vars

\* The background updater and a client that only reads /api/predictions.
NextReads ==
    \/ Tick
    \/ TimerWake
    \/ GetPredictions
    \/ Respond
    \/ \E t \in Threads : BulkRaises(t)
    \/ \E t \in Threads : SymbolSkipped(t)
    \/ \E t \in Threads : SymbolPredicted(t)
    \/ \E t \in Threads : ReadSig(t)
    \/ \E t \in Threads : Decide(t)
    \/ \E t \in Threads : Notify(t)
    \/ \E t \in Threads : SetTime(t)
    \/ \E t \in Threads : Publish(t)
    \/ \E t \in Threads : Stamp(t)

SpecReads == Init /\ [][NextReads]_vars


\* ======================================================================
\* The CoinGecko client: fetch_bulk_prices and fetch_ohlc, request by
\* request, as one cycle of collect_and_predict calls them.
\* ======================================================================

\* Symbols of a cycle whose requests are followed one by one, and batch sizes.
MaxSymbols == 2
MaxBatch == 2
\* Symbols of a cycle in which every request succeeds at once.
MaxListLen == 6
\* Symbols of a cycle under a configuration other than the default one.
MaxTuned == 1

\* The first keys of SYMBOL_TO_ID.
Tickers == <<"BTCUSDT", "ETHUSDT", "BNBUSDT", "XRPUSDT", "ADAUSDT", "DOGEUSDT",
             "SOLUSDT", "MATICUSDT">>

Min(a, b) == IF a <= b THEN a ELSE b

\* ceil(n / b)
Ceil(n, b) == (n + b - 1) \div b

Range(q) == {q[j] : j \in 1..Len(q)}

\* A slice that takes one symbol too many: symbols[i:i + batch_size + 1].
Batch_Overlapping(syms, i, b) == SubSeq(syms, i + 1, Min(i + b + 1, Len(syms)))

\* Line 111: batch = symbols[i:i + batch_size], i counted from 0.
Batch(syms, i, b) == SubSeq(syms, i + 1, Min(i + b, Len(syms)))

\* Growth without the ceiling: delay = delay * BACKOFF_BASE.
NextDelay_Uncapped(delay, backoff) == (delay * backoff) \div 10

\* Lines 141, 149, 160, 195, 202, 212: delay = min(delay * BACKOFF_BASE, 60.0)
NextDelay(delay, backoff) == Min((delay * backoff) \div 10, DELAY_CEILING)

\* What the provider can answer to one request: 200; 429 without Retry-After,
\* with a number of seconds, or with a value float() or time.sleep() refuse
\* (an HTTP date, a negative number, nan, inf); 5xx; 4xx; another status below
\* 400 ("odd"); no answer at all (a requests.RequestException).
Answers == {"200", "429", "429num", "429bad", "5xx", "5xxnum", "4xx", "odd",
            "neterr"}
AnswersOf(prov) == IF prov = "fair" THEN {"200"} ELSE Answers

\* What the attempt loop does with an answer (lines 122-160, 185-212).
\*   "done":    the response is used, the loop is left
\*   "backoff": wait, grow delay, next attempt.  A 4xx status takes this path
\*              too: raise_for_status raises requests.HTTPError, which the
\*              except clause of line 155 (207) catches.
\*   "again":   raise_for_status returns, no branch matched: next attempt
\*   "raise":   float(retry_after) or time.sleep(wait) raises ValueError or
\*              OverflowError, which no clause of the client catches
Reaction(answer) ==
    CASE answer = "200" -> "done"
      [] answer \in {"429", "429num", "5xx", "5xxnum", "neterr", "4xx"} -> "backoff"
      [] answer = "odd" -> "again"
      [] answer = "429bad" -> "raise"

\* A loop with one attempt more: range(1, MAX_RETRIES + 2).
Exhausted_OneMore(attempt) == attempt > MAX_RETRIES

\* The number of seconds a numeric Retry-After header carries, in milliseconds.
RetryAfterMs == 7000

\* The sleep that follows an answer, before the next attempt: a base length
\* plus random.uniform(0.8, 2.0) seconds.  On a 429 the base is the
\* Retry-After value when the header is there, else delay (lines 135-137,
\* 189-191); on a 5xx and after a RequestException it is delay (lines 146,
\* 156, 199, 208).  No sleep follows an answer that matches no branch or
\* whose Retry-After makes float() or time.sleep() raise.
RetryWait(answer, delay) ==
    CASE answer = "429num" -> Some([base |-> RetryAfterMs, jitter |-> <<800, 2000>>])
      [] answer \in {"429", "5xx", "5xxnum", "neterr", "4xx"} ->
            Some([base |-> delay, jitter |-> <<800, 2000>>])
      [] OTHER -> None

\* Line 130: time.sleep(API_DELAY_BULK + random.uniform(0.4, 1.2))
SuccessWait(cfg) == Some([base |-> cfg.delay_bulk, jitter |-> <<400, 1200>>])

\* Entries that forget the batches before: out = {s: data[cid] ...}.
Remap_Fresh(out, found) == found

\* Lines 125-128: out[s] = data[cid] for the symbols of the batch whose id is
\* in the response.
Remap(out, found) == out \cup found

\* range(1, MAX_RETRIES + 1) has no further attempt.
Exhausted(attempt) == attempt >= MAX_RETRIES

\* The configurations of the client: the default one, and others.
DefaultCfg == [delay_bulk |-> API_DELAY_BULK, delay_ohlc |-> API_DELAY_OHLC,
               backoff |-> BACKOFF_BASE]
Cfgs == [delay_bulk : {API_DELAY_BULK, 40000, 70000},
         delay_ohlc : {API_DELAY_OHLC, 70000},
         backoff : {5, 10, BACKOFF_BASE}]

\* A cycle is about to start.
FetchReady(cfgs, provs, lens, sizes) ==
    /\ f_cfg \in cfgs
    /\ provider \in provs
    /\ f_symbols \in {SubSeq(Tickers, 1, n) : n \in lens}
    /\ f_batch \in sizes
    /\ f_pc = "idle"
    /\ f_i = 0
    /\ f_k = 0
    /\ f_attempt = 1
    /\ f_delay = 0
    /\ f_out = {}
    /\ f_log = <<>>
    /\ f_last = "none"
    /\ f_wait = None
    /\ f_seen = {}
    /\ f_result = "none"

\* The rest of the service stands still while the client is followed.
MainStill ==
    /\ symbols = <<"BTCUSDT", "ETHUSDT">>
    /\ MainIdle

InitFetch ==
    /\ MainStill
    /\ LevelsIdle
    /\ CallIdle
    /\ FetchReady({DefaultCfg}, {"any"}, 0..MaxSymbols, 1..MaxBatch)

InitBatch ==
    /\ MainStill
    /\ LevelsIdle
    /\ CallIdle
    /\ FetchReady({DefaultCfg}, {"fair"}, 0..MaxListLen, 1..BATCH_SIZE)

InitBackoff ==
    /\ MainStill
    /\ LevelsIdle
    /\ CallIdle
    /\ FetchReady(Cfgs, {"any"}, 0..MaxTuned, {1})


\* The request sequence of the next batch starts (lines 110-115), or
\* fetch_bulk_prices returns (line 165) and the loop over the symbols of
\* main.py (line 331) starts with the first candle request (line 334).
BulkMoveOn ==
    IF f_i + f_batch < Len(f_symbols)
    THEN /\ f_i' = f_i + f_batch
         /\ f_attempt' = 1
         /\ f_delay' = f_cfg.delay_bulk
         /\ UNCHANGED <<f_pc, f_k, f_result>>
    ELSE /\ f_pc' = "ohlc"
         /\ f_k' = 1
         /\ f_attempt' = 1
         /\ f_delay' = f_cfg.delay_ohlc
         /\ f_result' = "bulk_mapping"
         /\ UNCHANGED f_i

\* fetch_ohlc has returned or raised: the loop of main.py goes to the next
\* symbol (lines 335-336, 466-468), or ends and the cycle publishes (470-471).
OhlcMoveOn(result) ==
    /\ f_result' = result
    /\ IF f_k < Len(f_symbols)
       THEN /\ f_k' = f_k + 1
            /\ f_attempt' = 1
            /\ f_delay' = f_cfg.delay_ohlc
            /\ UNCHANGED f_pc
       ELSE /\ f_pc' = "published"
            /\ UNCHANGED <<f_k, f_attempt, f_delay>>

\* collect_and_predict calls fetch_bulk_prices(SYMBOLS) (line 327 of main.py);
\* an empty list returns at once (lines 105-106) and the cycle publishes.
CycleStart ==
    /\ f_pc = "idle"
    /\ IF f_symbols = <<>>
       THEN /\ f_pc' = "published"
            /\ f_result' = "bulk_mapping"
            /\ UNCHANGED <<f_i, f_attempt, f_delay>>
       ELSE /\ f_pc' = "bulk"
            /\ f_i' = 0
            /\ f_attempt' = 1
            /\ f_delay' = f_cfg.delay_bulk
            /\ UNCHANGED f_result
    /\ UNCHANGED <<f_cfg, provider, f_symbols, f_batch, f_k, f_out, f_log, f_last, f_wait, f_seen>>
    /\ UNCHANGED <<shared, locals, history, writer, lv, call>>

\* One pass of the attempt loop of fetch_bulk_prices (lines 116-163).
BulkAttempt ==
    /\ f_pc = "bulk"
    /\ \E answer \in AnswersOf(provider), partial \in BOOLEAN :
          LET batch == Batch(f_symbols, f_i, f_batch)
              found == IF partial THEN Range(Tail(batch)) ELSE Range(batch)
              react == Reaction(answer)
          IN  /\ partial => (answer = "200" /\ provider = "any")
              /\ f_log' = Append(f_log, [call |-> "price", ids |-> batch])
              /\ f_last' = answer
              /\ f_out' = IF react = "done" THEN Remap(f_out, found) ELSE f_out
              /\ f_seen' = IF react = "done" THEN f_seen \cup found ELSE f_seen
              /\ f_wait' = IF react = "done" THEN SuccessWait(f_cfg)
                           ELSE RetryWait(answer, f_delay)
              /\ CASE react = "done" -> BulkMoveOn
                   [] react = "raise" ->
                         \* the exception leaves fetch_bulk_prices and is
                         \* caught at line 474 of main.py: the cycle is over
                         /\ f_pc' = "aborted"
                         /\ f_result' = "bulk_raised"
                         /\ UNCHANGED <<f_i, f_k, f_attempt, f_delay>>
                   [] react \in {"backoff", "again"} ->
                         IF Exhausted(f_attempt)
                         THEN BulkMoveOn
                         ELSE /\ f_attempt' = f_attempt + 1
                              /\ f_delay' = IF react = "backoff"
                                            THEN NextDelay(f_delay, f_cfg.backoff)
                                            ELSE f_delay
                              /\ UNCHANGED <<f_pc, f_i, f_k, f_result>>
    /\ UNCHANGED <<f_cfg, provider, f_symbols, f_batch>>
    /\ UNCHANGED <<shared, locals, history, writer, lv, call>>

\* One pass of the attempt loop of fetch_ohlc (lines 180-215).
OhlcAttempt ==
    /\ f_pc = "ohlc"
    /\ \E answer \in AnswersOf(provider) :
          LET react == Reaction(answer)
          IN  /\ f_log' = Append(f_log, [call |-> "ohlc", ids |-> <<f_symbols[f_k]>>])
              /\ f_last' = answer
              /\ f_wait' = RetryWait(answer, f_delay)
              /\ CASE react = "done" -> OhlcMoveOn("ohlc_series")
                   [] react = "raise" -> OhlcMoveOn("ohlc_raised")
                   [] react \in {"backoff", "again"} ->
                         IF Exhausted(f_attempt)
                         THEN OhlcMoveOn("ohlc_empty")
                         ELSE /\ f_attempt' = f_attempt + 1
                              /\ f_delay' = IF react = "backoff"
                                            THEN NextDelay(f_delay, f_cfg.backoff)
                                            ELSE f_delay
                              /\ UNCHANGED <<f_pc, f_k, f_result>>
    /\ UNCHANGED <<f_cfg, provider, f_symbols, f_batch, f_i, f_out, f_seen>>
    /\ UNCHANGED <<shared, locals, history, writer, lv, call>>

NextFetch ==
    \/ CycleStart
    \/ BulkAttempt
    \/ OhlcAttempt

\* The thread that runs the cycle keeps running: every request has a timeout
\* (lines 120, 183) and every sleep a finite length.
SpecFetch == InitFetch /\ [][NextFetch]_vars /\ WF_vars(NextFetch)
SpecBatch == InitBatch /\ [][NextFetch]_vars /\ WF_vars(NextFetch)
SpecBackoff == InitBackoff /\ [][NextFetch]_vars /\ WF_vars(NextFetch)



\* ======================================================================
\* The levels of one candidate alert (lines 378-396, 413-459), followed from
\* the entry price to the payload.
\* ======================================================================

\* Entry prices (0 is the price of a symbol without a quote, line 354), ATR
\* values (0 stands for a falsy atr: None or 0.0) and raw levels.
LevelEntries == {0, 100, 1000}
LevelAtrs == {0, 2, 20}
LevelRaws == {0, 90, 100, 110, 980, 1000, 1040}
Sides == {"COMPRA", "VENDA"}

\* A candidate whose levels are still to be computed from the ATR, or whose
\* raw levels are given.
InitLevels ==
    /\ MainStill
    /\ FetchIdle
    /\ CallIdle
    /\ \E side \in Sides, entry \in LevelEntries :
          \/ \E atr \in LevelAtrs :
                lv = Some([stage |-> "quote", side |-> side, entry |-> entry,
                           atr |-> atr, tp |-> 0, sl |-> 0,
                           rr |-> <<0, 1>>, rr2 |-> <<0, 0>>])
          \/ \E tp \in LevelRaws, sl \in LevelRaws :
                lv = Some([stage |-> "raw", side |-> side, entry |-> entry,
                           atr |-> 0, tp |-> tp, sl |-> sl,
                           rr |-> <<0, 1>>, rr2 |-> <<0, 0>>])

\* Lines 381-393: levels by ATR, or by percentage when there is no ATR.
ComputeRaw ==
    /\ lv # None
    /\ lv[1].stage = "quote"
    /\ LET raw == RawLevels(lv[1].side, lv[1].entry, lv[1].atr)
       IN  lv' = Some([lv[1] EXCEPT !.stage = "raw", !.tp = raw[1], !.sl = raw[2]])
    /\ UNCHANGED <<shared, locals, history, writer, fetch, call>>

\* Lines 396-402: tp, sl = enforce_coherence(side, entry, tp, sl), then rr.
Repair ==
    /\ lv # None
    /\ lv[1].stage = "raw"
    /\ LET co == enforce_coherence(lv[1].side, lv[1].entry, lv[1].tp, lv[1].sl)
       IN  lv' = Some([lv[1] EXCEPT !.stage = "coherent", !.tp = co[1], !.sl = co[2],
                                   !.rr = RewardRisk(lv[1].side, lv[1].entry,
                                                     co[1], co[2])])
    /\ UNCHANGED <<shared, locals, history, writer, fetch, call>>

\* Lines 436-450: the payload carries round(entry, 6), round(tp, 6),
\* round(sl, 6) and round(rr, 2).
Emit ==
    /\ lv # None
    /\ lv[1].stage = "coherent"
    /\ lv' = Some([lv[1] EXCEPT !.stage = "payload",
                                !.entry = Round6(lv[1].entry),
                                !.tp = Round6(lv[1].tp),
                                !.sl = Round6(lv[1].sl),
                                !.rr2 = Round2(lv[1].rr)])
    /\ UNCHANGED <<shared, locals, history, writer, fetch, call>>

NextLevels ==
    \/ ComputeRaw
    \/ Repair
    \/ Emit

SpecLevels == InitLevels /\ [][NextLevels]_vars


\* ======================================================================
\* The trigger of one classification (lines 364-375), followed on its own.
\* ======================================================================

\* What predict_signal may have put into the result: a signal in either
\* case, or none ("" here), and scores that may be missing (None).
RawSignals == {"COMPRA", "VENDA", "NEUTRO", "compra", ""}
RawScores == {None, Some(64), Some(65), Some(70)}
RawProbs == {None, Some(64), Some(65)}
RawResults == [signal : RawSignals, confidence : RawScores,
               probability_buy : RawProbs, probability_sell : RawProbs]

\* str.upper()
Upper(str) ==
    CASE str = "compra" -> "COMPRA"
      [] OTHER -> str

\* float(x or 0.0)
OrZero(x) == IF x = None THEN 0 ELSE x[1]

\* Lines 364-367: conf, side, prob_buy, prob_sell.
Classified(raw) ==
    [signal |-> Upper(raw.signal),
     confidence |-> OrZero(raw.confidence),
     probability_buy |-> OrZero(raw.probability_buy),
     probability_sell |-> OrZero(raw.probability_sell)]

\* A result for BTCUSDT is about to be tested, in a cycle that has or has not
\* alerted the symbol already.
InitTrigger ==
    /\ MainStill
    /\ FetchIdle
    /\ LevelsIdle
    /\ \E raw \in RawResults, sent \in BOOLEAN :
          call = Some([fn |-> "trigger", stage |-> "called", raw |-> raw,
                       sent |-> sent, trigger |-> FALSE, alert |-> FALSE])

\* Lines 364-375: trigger is computed, and the alert block is entered or not.
EvalTrigger ==
    /\ call # None
    /\ call[1].fn = "trigger"
    /\ call[1].stage = "called"
    /\ LET trig == Trigger(Classified(call[1].raw))
           sent == IF call[1].sent THEN {"BTCUSDT"} ELSE {}
       IN  call' = Some([call[1] EXCEPT !.stage = "returned",
                                       !.trigger = trig,
                                       !.alert = EntersAlert(trig, "BTCUSDT", sent)])
    /\ UNCHANGED <<shared, locals, history, writer, fetch, lv>>

NextTrigger == EvalTrigger

SpecTrigger == InitTrigger /\ [][NextTrigger]_vars

\* ------------------------------------------------------------------ sma
\* sma (lines 151-159) on a list of numbers.  The numbers are integers and the
\* sums exact; a mean s / period is kept as the fraction <<s, period>>.
MaxValues == 4
MaxPeriod == 3

SmaNumbers == {0, 1, 3}
SmaLists == UNION {[1..n -> SmaNumbers] : n \in 0..MaxValues}
SmaPeriods == 1..MaxPeriod

\* sum(values[:period]), line 154, added up from the left.
RECURSIVE Sum(_)
Sum(q) == IF q = <<>> THEN 0 ELSE Sum(SubSeq(q, 1, Len(q) - 1)) + q[Len(q)]

\* A window that drops its second value instead of its first.
Leaving_OffByOne(values, i, period) == values[i - period + 1]

\* Line 157: values[i - period], the value that leaves the window.
Leaving(values, i, period) == values[i - period]

\* Lines 156-158: the loop from i on, with the running sum s.
RECURSIVE sma_loop(_, _, _, _, _)
sma_loop(values, period, i, s, out) ==
    IF i > Len(values)
    THEN out
    ELSE LET s2 == s + (values[i] - Leaving(values, i, period))
         IN  sma_loop(values, period, i + 1, s2, Append(out, <<s2, period>>))

\* Lines 151-159.
sma(values, period) ==
    IF Len(values) < period
    THEN <<>>
    ELSE LET s == Sum(SubSeq(values, 1, period))
         IN  sma_loop(values, period, period + 1, s, << <<s, period>> >>)

\* sma is about to be called.
InitSma ==
    /\ MainStill
    /\ FetchIdle
    /\ LevelsIdle
    /\ \E values \in SmaLists, period \in SmaPeriods :
          call = Some([fn |-> "sma", stage |-> "called", values |-> values,
                       period |-> period, out |-> <<>>])

\* The call returns.
SmaReturns ==
    /\ call # None
    /\ call[1].fn = "sma"
    /\ call[1].stage = "called"
    /\ call' = Some([call[1] EXCEPT !.stage = "returned",
                                    !.out = sma(call[1].values, call[1].period)])
    /\ UNCHANGED <<shared, locals, history, writer, fetch, lv>>

NextSma == SmaReturns

SpecSma == InitSma /\ [][NextSma]_vars


\* ------------------------------------------------- steps, for the claims
\* Thread t takes the step.
Acting(t) == pc'[t] # pc[t] \/ idx'[t] # idx[t]

\* Thread t is at a symbol of the loop.
AtSymbol(t) == pc[t] \in {"loop", "readsig", "decide", "notify", "settime"}

\* The step is a dispatch decision of thread t (line 409 taken).
Dispatches(t) == pc[t] = "decide" /\ pc'[t] = "notify"

\* Thread t holds a payload that was dispatched and whose symbol it has not
\* left yet.
InFlight(t) == pc[t] \in {"notify", "settime"}

\* The step leaves the whole AlertState as it was.
AlertStateUnchanged ==
    /\ last_alert_time' = last_alert_time
    /\ last_alert_sig' = last_alert_sig


\* ---------------------------------------------------------------- C1
\* C1: at most one execution of the update cycle is in progress at any time;
\* two cycles never overlap.
CyclesNeverOverlap ==
    \A a, b \in Threads : (InCycle(a) /\ InCycle(b)) => a = b

\* ---------------------------------------------------------------- C2
\* C2: a candidate alert is dispatched only if, against the symbol's stored
\* AlertState, the cooldown has elapsed (or there is no prior dispatch) and
\* the candidate signature differs from the stored last signature.
DispatchOnlyAgainstStoredState ==
    [][\A t \in Threads :
          Dispatches(t) =>
             /\ CooldownOk(now[t][1], last_alert_time[Cur(t)])
             /\ ~IsDup(last_alert_sig[Cur(t)], sig[t][1])]_vars

\* ---------------------------------------------------------------- C3
\* C3: when a cycle that dispatched an alert for a symbol ends, the symbol's
\* AlertState holds that alert's signature as last signature and that
\* decision's timestamp as last dispatch time.
CycleEndHoldsDispatch ==
    [][\A t \in Threads :
          (pc[t] = "stamp" /\ Acting(t)) =>
             \A i \in 1..Len(dispatched[t]) :
                LET d == dispatched[t][i]
                IN  /\ last_alert_sig'[d.symbol] = Some(d.sig)
                    /\ last_alert_time'[d.symbol] = Some(d.now)]_vars

\* ---------------------------------------------------------------- C4
\* C4: any two alerts dispatched for the same symbol are separated by at
\* least the cooldown window.
AlertsSeparatedByCooldown ==
    \A a, b \in Threads :
       (a # b /\ InFlight(a) /\ InFlight(b) /\ Cur(a) = Cur(b)) =>
          \/ now[a][1] - now[b][1] >= ALERT_COOLDOWN_MIN
          \/ now[b][1] - now[a][1] >= ALERT_COOLDOWN_MIN

\* ---------------------------------------------------------------- C5
\* C5: two consecutive alerts dispatched for the same symbol never carry the
\* same signature.  (_last_alert_sig is written in the step that decides the
\* dispatch, so before a dispatch it holds the signature of the symbol's
\* previous alert.)
NoSameSignatureTwiceInARow ==
    [][\A t \in Threads :
          Dispatches(t) => last_alert_sig[Cur(t)] # sig[t]]_vars

\* ---------------------------------------------------------------- C6
\* C6: at the moment the payload is handed to the notifier, both the last
\* signature and the last dispatch time of the symbol have been stored.
BothStoredBeforeHandoff ==
    \A t \in Threads :
       handoff[t] # None => {"sig", "time"} \subseteq handoff[t][1]

\* ---------------------------------------------------------------- C7
\* C7: a step that ends a symbol without a dispatch (skipped, not triggered,
\* already alerted in the cycle, duplicate signature, cooldown not elapsed)
\* leaves the AlertState of every symbol as it was; and no step of a thread
\* at a symbol changes the AlertState of another symbol.
SuppressionLeavesAlertState ==
    [][\A t \in Threads :
          (Acting(t) /\ AtSymbol(t)) =>
             /\ pc[t] = "loop" => AlertStateUnchanged
             /\ ( /\ pc[t] = "decide"
                  /\ \/ IsDup(last_sig[t], sig[t][1])
                     \/ ~CooldownOk(now[t][1], last_t[t]) ) => AlertStateUnchanged
             /\ \A s \in Sym \ {Cur(t)} :
                   /\ last_alert_time'[s] = last_alert_time[s]
                   /\ last_alert_sig'[s] = last_alert_sig[s]]_vars

SuppressedWithAlertState ==
    \E t \in Threads :
       /\ outcome[t] = "suppressed"
       /\ last_alert_sig[symbols[idx[t] - 1]] # None
       /\ last_alert_time[symbols[idx[t] - 1]] # None

\* ---------------------------------------------------------------- C8
\* C8: a failed notification never reaches the cycle as an exception and
\* changes no AlertState; the step after it stores the decision's timestamp
\* as last dispatch time, leaves the stored signatures alone, and moves the
\* loop to the next symbol.
FailureKeepsAlertState ==
    [][\A t \in Threads :
          /\ (pc[t] = "notify" /\ Acting(t)) =>
                /\ pc'[t] = "settime"
                /\ AlertStateUnchanged
          /\ (pc[t] = "settime" /\ tg[t] = "failed" /\ Acting(t)) =>
                /\ last_alert_time'[Cur(t)] = now[t]
                /\ last_alert_sig' = last_alert_sig
                /\ idx'[t] = idx[t] + 1
                /\ pc'[t] \in {"loop", "publish"}]_vars

ContinuedAfterFailure ==
    \E t \in Threads :
       /\ outcome[t] = "sent_failed"
       /\ pc[t] = "loop"
       /\ last_alert_time[symbols[idx[t] - 1]] # None
       /\ last_alert_sig[symbols[idx[t] - 1]] # None

OnePayloadPerSymbolPerCycle ==
    \A t \in Threads :
       \A i, j \in 1..Len(dispatched[t]) :
          dispatched[t][i].symbol = dispatched[t][j].symbol => i = j

CappedSecondOccurrence ==
    \E t \in Threads :
       /\ outcome[t] = "capped"
       /\ Len(dispatched[t]) = 1
       /\ symbols[1] = symbols[2]

\* The requests of the cycle so far that went to /simple/price, and those
\* that asked for the candles of symbol s.
IsPrice(r) == r.call = "price"
PriceLog == SelectSeq(f_log, IsPrice)
OhlcRequests(s) ==
    Cardinality({j \in 1..Len(f_log) :
                    f_log[j].call = "ohlc" /\ f_log[j].ids = <<s>>})

\* --------------------------------------------------------------- C11
\* C11: fetch_bulk_prices never fails as a whole: whatever the provider
\* answers, the call returns a mapping instead of raising.
FetchBulkAlwaysReturns ==
    f_result # "bulk_raised" /\ f_pc # "aborted"

\* --------------------------------------------------------------- C12
\* C12: fetch_ohlc issues at most MAX_RETRIES requests per call and, when no
\* attempt is answered with 200, returns the empty series instead of raising.
FetchOhlcNeverRaises ==
    /\ f_result # "ohlc_raised"
    /\ \A j \in 1..Len(f_symbols) : OhlcRequests(f_symbols[j]) <= MAX_RETRIES

\* --------------------------------------------------------------- C13
\* C13: after a response whose status is neither 200, 429 nor 5xx (a 4xx) no
\* further request is issued for the same batch or symbol.
NoRequestAfterFatalStatus ==
    [][(f_last = "4xx" /\ f_attempt > 1) => f_log' = f_log]_vars

\* ---------------------------------------------------------------- C14
\* The symbols of the price requests issued so far, in the order requested.
RECURSIVE Flatten(_)
Flatten(q) == IF q = <<>> THEN <<>> ELSE Head(q).ids \o Flatten(Tail(q))

\* C14: when every request succeeds on its first attempt, the batches
\* requested by fetch_bulk_prices are consecutive slices of the symbol list in
\* the original order, each of at least one and at most B symbols and only the
\* last one possibly smaller than B; once the call has returned they cover
\* the list, every symbol in exactly one batch, and exactly ceil(N/B)
\* requests were issued.
BatchesPartitionTheList ==
    LET n == Len(f_symbols)
        reqs == PriceLog
        cat == Flatten(reqs)
    IN  /\ Len(cat) <= n
        /\ cat = SubSeq(f_symbols, 1, Len(cat))
        /\ \A j \in 1..Len(reqs) :
              /\ Len(reqs[j].ids) >= 1
              /\ Len(reqs[j].ids) <= f_batch
              /\ j < Len(reqs) => Len(reqs[j].ids) = f_batch
        /\ f_pc \in {"ohlc", "published"} =>
              /\ cat = f_symbols
              /\ Len(reqs) = Ceil(n, f_batch)
              /\ \A k \in 1..n :
                    Cardinality({j \in 1..Len(reqs) :
                                   f_symbols[k] \in Range(reqs[j].ids)}) = 1

\* Six symbols with B = 5 were fetched in batches of 5 and 1.
SixSymbolsInTwoBatches ==
    /\ f_pc = "published"
    /\ f_batch = 5
    /\ Len(f_symbols) = 6
    /\ PriceLog = << [call |-> "price", ids |-> SubSeq(Tickers, 1, 5)],
                     [call |-> "price", ids |-> <<Tickers[6]>>] >>

\* ---------------------------------------------------------------- C15
\* The step is the next attempt of the same request.
NextAttemptOfRequest ==
    /\ f_pc \in {"bulk", "ohlc"}
    /\ f_pc' = f_pc
    /\ f_i' = f_i
    /\ f_k' = f_k
    /\ f_attempt' = f_attempt + 1

\* C15: within the retry sequence of one request, for every sequence of
\* failures and every configured positive base delay and backoff multiplier,
\* the backoff delay never decreases from one attempt to the next and never
\* exceeds the ceiling of 60 seconds.
BackoffMonotoneAndCapped ==
    /\ [](f_pc \in {"bulk", "ohlc"} => f_delay <= DELAY_CEILING)
    /\ [][NextAttemptOfRequest => f_delay' >= f_delay]_vars

\* The base delays are at most the ceiling and the multiplier is at least 1.
WithinCeilingCfg ==
    /\ f_cfg.delay_bulk <= DELAY_CEILING
    /\ f_cfg.delay_ohlc <= DELAY_CEILING
    /\ f_cfg.backoff >= 10

\* C15, as the code has it: the same, for every configured base delay of at
\* most 60 seconds and every backoff multiplier of at least 1.
BackoffMonotoneAndCappedWithinCeiling ==
    /\ [](WithinCeilingCfg =>
            (f_pc \in {"bulk", "ohlc"} => f_delay <= DELAY_CEILING))
    /\ [][(WithinCeilingCfg /\ NextAttemptOfRequest) => f_delay' >= f_delay]_vars

\* Under such a configuration a request has been retried and its delay has
\* grown up to the ceiling.
DelayReachedCeiling ==
    /\ WithinCeilingCfg
    /\ f_pc \in {"bulk", "ohlc"}
    /\ f_attempt > 1
    /\ f_delay = DELAY_CEILING
    /\ f_delay > (IF f_pc = "bulk" THEN f_cfg.delay_bulk ELSE f_cfg.delay_ohlc)

\* ---------------------------------------------------------------- C16
\* (ceil(N/B) + N) * MAX_RETRIES
RequestBound == (Ceil(Len(f_symbols), f_batch) + Len(f_symbols)) * MAX_RETRIES

\* C16: whatever the provider answers, the requests issued in one cycle over
\* N symbols with batch size B number at most (ceil(N/B) + N) * MAX_RETRIES,
\* and every started cycle reaches its end.
CycleBoundedAndCompletes ==
    /\ [](Len(f_log) <= RequestBound)
    /\ (f_pc # "idle") ~> (f_pc \in {"published", "aborted"})

\* A cycle over at least one symbol ended after every request of it had used
\* up its attempts.
EndedAfterEveryRetry ==
    /\ f_pc = "published"
    /\ f_symbols # <<>>
    /\ Len(f_log) = RequestBound

\* ---------------------------------------------------------------- C17
\* C17: a cycle never aborts because of a failure while fetching or
\* processing data: a step at a symbol, whatever failed there, goes on to the
\* next symbol or to the publication, and a cycle is left only by the step
\* that completes the publication of a new snapshot (last_update replaced
\* after predictions_cache).
CycleAlwaysPublishes ==
    [][\A t \in Threads :
          /\ (AtSymbol(t) /\ Acting(t) /\ pc'[t] \notin {"readsig", "decide",
                                                         "notify", "settime"}) =>
                pc'[t] \in {"loop", "publish"}
          /\ (InCycle(t) /\ pc'[t] \in {"sleep", "respond"}) =>
                /\ pc[t] = "stamp"
                /\ last_update' = Some(clock)]_vars

\* ---------------------------------------------------------------- C18
Ordered(side, entry, tp, sl) ==
    IF side = "COMPRA" THEN tp > entry /\ entry > sl
                       ELSE tp < entry /\ entry < sl

\* C18: for either side and any raw levels with entry >= 0, the levels
\* returned by enforce_coherence and the levels carried by the payload
\* satisfy: COMPRA => target > entry > stop; VENDA => target < entry < stop.
LevelsOrderedAfterRepair ==
    (lv # None /\ lv[1].stage \in {"coherent", "payload"}) =>
       /\ lv[1].entry >= 0
       /\ Ordered(lv[1].side, lv[1].entry, lv[1].tp, lv[1].sl)

\* ---------------------------------------------------------------- C19
\* C19: a symbol absent from the bulk mapping is skipped for the cycle: no
\* step of the cycle at that symbol dispatches an alert for it or changes
\* the AlertState.
AbsentQuoteIsSkipped ==
    [][\A t \in Threads :
          (AtSymbol(t) /\ Acting(t) /\ bulk_data[t][Cur(t)] = Some(None)) =>
             /\ ~Dispatches(t)
             /\ AlertStateUnchanged]_vars

\* ---------------------------------------------------------------- C20
\* C20: a read of /api/predictions never starts a cycle and never waits for
\* one: the thread serving the read is never inside collect_and_predict.
ReadNeverRunsCycle ==
    ~InCycle("http")

\* ---------------------------------------------------------------- C21
\* C21: the trigger fires if and only if confidence >= threshold and either
\* the side is Buy and probBuy >= threshold or the side is Sell and
\* probSell >= threshold; no alert is produced without the trigger.
TriggerIffThresholds ==
    (call # None /\ call[1].fn = "trigger" /\ call[1].stage = "returned") =>
       LET raw == call[1].raw
           conf == IF raw.confidence = None THEN 0 ELSE raw.confidence[1]
           pbuy == IF raw.probability_buy = None THEN 0 ELSE raw.probability_buy[1]
           psell == IF raw.probability_sell = None THEN 0 ELSE raw.probability_sell[1]
           buy == raw.signal \in {"COMPRA", "compra"}
           sell == raw.signal = "VENDA"
       IN  /\ call[1].trigger <=>
                 /\ conf >= ALERT_CONF_MIN
                 /\ \/ (buy /\ pbuy >= ALERT_CONF_MIN)
                    \/ (sell /\ psell >= ALERT_CONF_MIN)
           /\ call[1].alert => call[1].trigger

\* A Buy result with confidence above and probBuy below the threshold, and a
\* result that is neither Buy nor Sell, did not fire.
HighConfidenceLowProbability ==
    /\ call # None
    /\ call[1].fn = "trigger"
    /\ call[1].stage = "returned"
    /\ call[1].raw.signal = "COMPRA"
    /\ call[1].raw.confidence = Some(70)
    /\ call[1].raw.probability_buy = Some(64)
    /\ call[1].raw.probability_sell = Some(65)
    /\ ~call[1].trigger
    /\ ~call[1].alert

\* ---------------------------------------------------------------- C22
\* C22: with ATR levels enabled and an ATR available, Buy gives target =
\* entry + targetMultiplier * atr and stop = entry - stopMultiplier * atr,
\* Sell gives target = entry - targetMultiplier * atr and stop = entry +
\* stopMultiplier * atr; otherwise the levels are the fixed percentage
\* offsets of the entry.
LevelsDerivedFromAtrOrPercent ==
    [][(lv # None /\ lv[1].stage = "quote") =>
          LET side == lv[1].side
              entry == lv[1].entry
              atr == lv[1].atr
              tp == lv'[1].tp
              sl == lv'[1].sl
          IN  IF USE_ATR_LEVELS /\ atr > 0
              THEN IF side = "COMPRA"
                   THEN tp = entry + TP_ATR_MULT * atr /\ sl = entry - SL_ATR_MULT * atr
                   ELSE tp = entry - TP_ATR_MULT * atr /\ sl = entry + SL_ATR_MULT * atr
              ELSE IF side = "COMPRA"
                   THEN /\ tp * 1000 = entry * (1000 + TP_PCT)
                        /\ sl * 1000 = entry * (1000 - SL_PCT)
                   ELSE /\ tp * 1000 = entry * (1000 - TP_PCT)
                        /\ sl * 1000 = entry * (1000 + SL_PCT)]_vars

\* Entry 100, Buy, ATR 2, multipliers 2 and 1: target 104, stop 98, and a
\* reward of twice the risk.
ExampleLevels ==
    /\ lv # None
    /\ lv[1].stage = "coherent"
    /\ lv[1].side = "COMPRA"
    /\ lv[1].entry = 100
    /\ lv[1].atr = 2
    /\ lv[1].tp = 104
    /\ lv[1].sl = 98
    /\ lv[1].rr[1] = 2 * lv[1].rr[2]
    /\ TP_ATR_MULT = 2
    /\ SL_ATR_MULT = 1

\* ---------------------------------------------------------------- C23
\* C23: for every emitted alert the reward:risk ratio is finite and
\* non-negative: its dividend is >= 0 and its divisor is > 0 for the levels
\* produced by the coherence repair, and so is the rounded ratio of the
\* payload.
RewardRiskFiniteNonNegative ==
    (lv # None /\ lv[1].stage \in {"coherent", "payload"}) =>
       /\ lv[1].rr[1] >= 0
       /\ lv[1].rr[2] > 0
       /\ lv[1].rr2[1] >= 0
       /\ lv[1].rr2[2] >= 0

\* An alert whose stop equals its entry was emitted: the divisor is the floor.
EmittedWithFlooredRisk ==
    /\ lv # None
    /\ lv[1].stage = "payload"
    /\ lv[1].rr[2] = 1
    /\ lv[1].rr[1] > 0
    /\ lv[1].rr2[1] > 0

\* ---------------------------------------------------------------- C24
\* The symbol has fewer than 60 candles, or its classification fails.
Failing(s) == call[1].ohlc[s] < MIN_CANDLES \/ ~call[1].classified[s]

RECURSIVE Sound(_)
Sound(q) == IF q = <<>> THEN <<>>
            ELSE IF Failing(Head(q)) THEN Sound(Tail(q))
                 ELSE <<Head(q)>> \o Sound(Tail(q))

\* C24: a symbol with fewer than 60 candles, or whose classification fails,
\* contributes no prediction entry and no alert in that cycle: the step at it
\* changes nothing but the position of the loop; and the cycle ends with the
\* prediction entries of the other symbols, in the order of the list, as if
\* the failing symbol were not in it.
FailingSymbolLeavesNoTrace ==
    /\ [][(pc["timer"] = "loop" /\ Acting("timer") /\ Failing(Cur("timer"))) =>
             /\ idx'["timer"] = idx["timer"] + 1
             /\ pc'["timer"] \in {"loop", "publish"}
             /\ predictions' = predictions
             /\ sent_this_cycle' = sent_this_cycle
             /\ dispatched' = dispatched
             /\ AlertStateUnchanged
             /\ UNCHANGED <<predictions_cache, last_update>>]_vars
    /\ [](pc["timer"] \in {"publish", "stamp"} =>
             predictions["timer"] = Sound(symbols))
    /\ [](\A i \in 1..Len(dispatched["timer"]) :
             ~Failing(dispatched["timer"][i].symbol))

\* A cycle published the entry of ETHUSDT alone, and alerted it, after
\* BTCUSDT had come with 59 candles.
PublishedWithoutShortSeries ==
    /\ Planned
    /\ call[1].ohlc["BTCUSDT"] = 59
    /\ call[1].classified["BTCUSDT"]
    /\ pc["timer"] = "stamp"
    /\ predictions_cache = <<"ETHUSDT">>
    /\ last_alert_sig["ETHUSDT"] # None
    /\ last_alert_sig["BTCUSDT"] = None

\* ---------------------------------------------------------------- C25
\* The step issues a request, and the provider's answer is one of these.
Answered(answers) == Len(f_log') = Len(f_log) + 1 /\ f_last' \in answers

\* The answer used up one attempt of the request: the next attempt of the
\* same request follows with the delay grown, or the attempts are used up.
ConsumesOneAttempt ==
    IF f_attempt < MAX_RETRIES
    THEN /\ f_attempt' = f_attempt + 1
         /\ f_pc' = f_pc
         /\ f_i' = f_i
         /\ f_k' = f_k
         /\ f_delay' = Min((f_delay * f_cfg.backoff) \div 10, DELAY_CEILING)
    ELSE f_attempt' = 1 \/ f_pc' # f_pc

\* C25: on a 429 answer the wait before the next attempt is N + jitter when
\* the answer carries a retry-after value N and delay + jitter otherwise; on
\* a 5xx answer or a network failure the wait is delay + jitter, whatever
\* retry-after value there is; in all three cases delay is then multiplied
\* by the backoff multiplier (capped) and the answer consumes exactly one of
\* the MAX_RETRIES attempts.
RetryWaitsAsSpecified ==
    [][/\ Answered({"429num"}) =>
             (f_wait' # None /\ f_wait'[1].base = RetryAfterMs)
       /\ Answered({"429"}) =>
             (f_wait' # None /\ f_wait'[1].base = f_delay)
       /\ Answered({"429bad"}) =>
             f_wait' # None
       /\ Answered({"5xx", "5xxnum", "neterr"}) =>
             (f_wait' # None /\ f_wait'[1].base = f_delay)
       /\ Answered({"429", "429num", "429bad", "5xx", "5xxnum", "neterr"}) =>
             ConsumesOneAttempt]_vars

\* ---------------------------------------------------------------- C26
\* C26: the mapping fetch_bulk_prices returns is keyed by tickers of the list
\* and holds a symbol if and only if a 200 response to a request of the
\* symbol's batch contained the symbol's id; no entry is lost again while the
\* later batches are requested, whether they succeed or use up their
\* attempts.
MappingHoldsWhatWasAnswered ==
    /\ [](f_out \subseteq Range(f_symbols))
    /\ [](f_result \in {"bulk_mapping", "ohlc_series", "ohlc_empty", "ohlc_raised"}
            => f_out = f_seen)
    /\ [][f_out \subseteq f_out']_vars

\* The first of two batches was answered, the second one used up its
\* attempts, and the mapping returned holds the first batch's symbol.
FirstBatchKeptAfterSecondFailed ==
    /\ f_pc = "ohlc"
    /\ f_batch = 1
    /\ Len(f_symbols) = 2
    /\ f_out = {f_symbols[1]}
    /\ Len(PriceLog) = 1 + MAX_RETRIES
    /\ f_log[1].ids = <<f_symbols[1]>>
    /\ f_log[2].ids = <<f_symbols[2]>>

\* ---------------------------------------------------------------- C27
\* C27: predictions_cache changes only in the one step in which a cycle
\* whose loop has gone through the whole list publishes its result list, and
\* then it is that list; a cycle that ends with an error leaves it as it was.
\* So it is always the initial empty list or the complete list of one cycle.
SnapshotReplacedInOneStep ==
    /\ [][predictions_cache' # predictions_cache =>
             \E t \in Threads :
                /\ pc[t] = "publish"
                /\ pc'[t] = "stamp"
                /\ idx[t] = Len(symbols) + 1
                /\ predictions_cache' = predictions[t]]_vars
    /\ [][\A t \in Threads :
             (AtSymbol(t) /\ pc'[t] \in {"sleep", "respond"}) =>
                predictions_cache' = predictions_cache]_vars

\* The snapshot holds the complete list of a finished cycle while another
\* cycle has gathered a part of its own list.
OldSnapshotDuringCycle ==
    \E t \in Threads :
       /\ predictions_cache = <<"BTCUSDT", "ETHUSDT">>
       /\ pc[t] = "loop"
       /\ idx[t] = 2
       /\ predictions[t] = <<"BTCUSDT">>
       /\ \A u \in Threads \ {t} : ~InCycle(u)

\* ---------------------------------------------------------------- C28
\* C28: a reader that has read last_update and predictions_cache has read the
\* values of one cycle, or the two initial values: the cycle that assigned the
\* last_update it read is the cycle that assigned the predictions_cache it
\* read.
ReaderSeesOnePair ==
    (call # None /\ call[1].fn = "status" /\ call[1].stage = "done") =>
        call[1].update_of = call[1].cache_of

\* ---------------------------------------------------------------- C29
\* C29: whenever no cycle is between the decision to dispatch and the end of
\* that dispatch, a symbol has a stored last signature exactly when it has a
\* stored last dispatch time; the last signature of a symbol changes only in
\* a dispatch decision for that symbol, and its last dispatch time only at
\* the end of a dispatch of that symbol, so a symbol never dispatched has
\* neither.
AlertStateComplete ==
    /\ []((\A t \in Threads : ~InFlight(t)) =>
            \A s \in Sym :
               last_alert_sig[s] # None <=> last_alert_time[s] # None)
    /\ [][\A s \in Sym :
             last_alert_sig'[s] # last_alert_sig[s] =>
                \E t \in Threads : Dispatches(t) /\ Cur(t) = s]_vars
    /\ [][\A s \in Sym :
             last_alert_time'[s] # last_alert_time[s] =>
                \E t \in Threads :
                   /\ pc[t] = "settime"
                   /\ Cur(t) = s
                   /\ handoff[t] # None
                   /\ last_alert_sig[s] # None]_vars

\* One symbol has been alerted and holds both, the other never and holds
\* neither, after a cycle that went through both.
AlertedHoldsBothOtherNeither ==
    /\ \A t \in Threads : ~InCycle(t)
    /\ symbols = <<"BTCUSDT", "ETHUSDT">>
    /\ predictions_cache = <<"BTCUSDT", "ETHUSDT">>
    /\ last_alert_sig["BTCUSDT"] # None
    /\ last_alert_time["BTCUSDT"] # None
    /\ last_alert_sig["ETHUSDT"] = None
    /\ last_alert_time["ETHUSDT"] = None

\* ---------------------------------------------------------------- C30
\* The sum of the window of the given length that starts at position i, added
\* up on its own.
WindowSum(values, i, period) == Sum(SubSeq(values, i, i + period - 1))

====
